---------------------------- MODULE Spec2Model ----------------------------
(***************************************************************************)
(* Model of the keys module of nyx-modules-qemux86 (src/keys/keys.c):      *)
(* the raw event reader (read_input_event), the iterator/translator        *)
(* (keys_get_event with its function statics raw_events, event_count and   *)
(* event_iter), the key classifier (lookup_key), and the life cycle of     *)
(* the translated events (keys_event_create, keys_release_event,           *)
(* nyx_module_open, nyx_module_close).                                     *)
(*                                                                         *)
(* Raw key codes carry the numeric values of <linux/input.h>.  The nyx     *)
(* enumerators (custom key identifiers, key types, error codes) are        *)
(* declared in headers outside the module and are kept symbolic: each is   *)
(* the string of its own name.                                             *)
(***************************************************************************)
EXTENDS Integers, Sequences, FiniteSets, TLC

(***************************************************************************)
(* Bounds of the exploration.                                              *)
(***************************************************************************)
\* heap cells available to calloc for translated events
MaxAddr == 2
\* whole records the source hands over during one run, in one read() or
\* in several
MaxRecords == 2
\* records the source hands over during one run of the key map exploration
MaxKeyRecords == 2
\* records the source hands over during one run of the misuse exploration
MaxMisuseRecords == 2
\* records the source hands over during one run of the shared exploration
MaxSharedRecords == 2

(***************************************************************************)
(* Program constants.                                                      *)
(***************************************************************************)
MAX_EVENTS == 64
EV_SYN == 0
EV_KEY == 1
\* sizeof(InputEvent_t): struct timeval (8 bytes on the 32 bit x86 target),
\* uint16_t type, uint16_t code, int32_t value
SizeofInputEvent == 16

KEY_Q == 16
KEY_W == 17
KEY_E == 18
KEY_A == 30
KEY_LEFTSHIFT == 42
KEY_HOME == 102
KEY_END == 107
KEY_MUTE == 113
KEY_VOLUMEDOWN == 114
KEY_VOLUMEUP == 115
KEY_PAUSE == 119
KEY_STOP == 128
KEY_BACK == 158
KEY_REWIND == 168
KEY_HOMEPAGE == 172
KEY_PLAY == 207
KEY_FASTFORWARD == 208
KEY_SEARCH == 217
KEY_BRIGHTNESSDOWN == 224
KEY_BRIGHTNESSUP == 225
KEY_NEXT == 407
KEY_PREVIOUS == 412
\* the largest value of the uint16_t code field
KEY_CODE_MAX == 65535

NYX_KEY_TYPE_STANDARD == "NYX_KEY_TYPE_STANDARD"
NYX_KEY_TYPE_CUSTOM == "NYX_KEY_TYPE_CUSTOM"
NYX_EVENT_KEYS == "NYX_EVENT_KEYS"

NYX_ERROR_NONE == "NYX_ERROR_NONE"
NYX_ERROR_INVALID_HANDLE == "NYX_ERROR_INVALID_HANDLE"
NYX_ERROR_INVALID_VALUE == "NYX_ERROR_INVALID_VALUE"
NYX_ERROR_OUT_OF_MEMORY == "NYX_ERROR_OUT_OF_MEMORY"

NULL == 0

(***************************************************************************)
(* lookup_key: the switch over the raw code, then the pass through of      *)
(* every code the switch did not mark custom.  typeIn is the value of      *)
(* *key_type_out_ptr on entry.                                             *)
(***************************************************************************)
Custom(id) == [key |-> id, key_type |-> NYX_KEY_TYPE_CUSTOM]

KeySwitch(keyCode, typeIn) ==
    CASE keyCode = KEY_Q -> Custom("NYX_KEYS_CUSTOM_KEY_HOME")
      [] keyCode \in {KEY_HOMEPAGE, KEY_W} -> Custom("NYX_KEYS_CUSTOM_KEY_HOT")
      [] keyCode \in {KEY_BACK, KEY_E} -> Custom("NYX_KEYS_CUSTOM_KEY_BACK")
      [] keyCode = KEY_HOME -> Custom("NYX_KEYS_CUSTOM_KEY_HOME")
      [] keyCode = KEY_VOLUMEUP -> Custom("NYX_KEYS_CUSTOM_KEY_VOL_UP")
      [] keyCode = KEY_VOLUMEDOWN -> Custom("NYX_KEYS_CUSTOM_KEY_VOL_DOWN")
      [] keyCode = KEY_END -> Custom("NYX_KEYS_CUSTOM_KEY_POWER_ON")
      [] keyCode = KEY_PLAY -> Custom("NYX_KEYS_CUSTOM_KEY_MEDIA_PLAY")
      [] keyCode = KEY_PAUSE -> Custom("NYX_KEYS_CUSTOM_KEY_MEDIA_PAUSE")
      [] keyCode = KEY_STOP -> Custom("NYX_KEYS_CUSTOM_KEY_MEDIA_STOP")
      [] keyCode = KEY_NEXT -> Custom("NYX_KEYS_CUSTOM_KEY_MEDIA_NEXT")
      [] keyCode = KEY_PREVIOUS -> Custom("NYX_KEYS_CUSTOM_KEY_MEDIA_PREVIOUS")
      [] keyCode = KEY_SEARCH -> Custom("NYX_KEYS_CUSTOM_KEY_SEARCH")
      [] keyCode = KEY_BRIGHTNESSDOWN -> Custom("NYX_KEYS_CUSTOM_KEY_BRIGHTNESS_DOWN")
      [] keyCode = KEY_BRIGHTNESSUP -> Custom("NYX_KEYS_CUSTOM_KEY_BRIGHTNESS_UP")
      [] keyCode = KEY_MUTE -> Custom("NYX_KEYS_CUSTOM_KEY_VOL_MUTE")
      [] keyCode = KEY_REWIND -> Custom("NYX_KEYS_CUSTOM_KEY_MEDIA_REWIND")
      [] keyCode = KEY_FASTFORWARD -> Custom("NYX_KEYS_CUSTOM_KEY_MEDIA_FASTFORWARD")
      [] OTHER -> [key |-> 0, key_type |-> typeIn]

\* lookup_key with the else branch of line 306 lost
lookup_key_without_else(keyCode, keyValue, typeIn) ==
    LET sw == KeySwitch(keyCode, typeIn)
    IN  IF sw.key_type # NYX_KEY_TYPE_CUSTOM
        THEN [key |-> IF keyCode = KEY_LEFTSHIFT THEN KEY_LEFTSHIFT ELSE sw.key,
              key_type |-> sw.key_type]
        ELSE sw

lookup_key(keyCode, keyValue, typeIn) ==
    LET sw == KeySwitch(keyCode, typeIn)
    IN  IF sw.key_type # NYX_KEY_TYPE_CUSTOM
        THEN [key |-> IF keyCode = KEY_LEFTSHIFT THEN KEY_LEFTSHIFT ELSE keyCode,
              key_type |-> sw.key_type]
        ELSE sw


(***************************************************************************)
(* The translation of one key record, lines 396-411: the type is reset to  *)
(* standard, lookup_key classifies the code, then the two flags are        *)
(* derived from the value.  cell is the event object written.              *)
(***************************************************************************)
KeyIsPress(value) == value # 0

\* line 411 with the comparison off by one
KeyIsAutoRepeatFromOne(value) == value >= 1

KeyIsAutoRepeat(value) == value > 1

TranslateInto(cell, rec) ==
    LET k == lookup_key(rec.code, rec.value, NYX_KEY_TYPE_STANDARD)
    IN  [cell EXCEPT !.key_type = k.key_type,
                     !.key = k.key,
                     !.key_is_press = KeyIsPress(rec.value),
                     !.key_is_auto_repeat = KeyIsAutoRepeat(rec.value)]

(***************************************************************************)
(* Heap cells.  keys_event_create: calloc gives a zeroed object, then the  *)
(* event type is set.  A freed cell holds nothing the program may use.     *)
(***************************************************************************)
Addr == 1..MaxAddr

FreeCell == [live |-> FALSE, type |-> "", key_type |-> NYX_KEY_TYPE_STANDARD,
             key |-> 0, key_is_press |-> FALSE, key_is_auto_repeat |-> FALSE]

keys_event_create ==
    [live |-> TRUE, type |-> NYX_EVENT_KEYS, key_type |-> NYX_KEY_TYPE_STANDARD,
     key |-> 0, key_is_press |-> FALSE, key_is_auto_repeat |-> FALSE]

(***************************************************************************)
(* Raw records.  The static array raw_events starts zeroed; the model      *)
(* keeps the prefix of it that a read has written and reads every entry    *)
(* beyond that prefix as the zero record.                                  *)
(***************************************************************************)
ZeroRecord == [type |-> 0, code |-> 0, value |-> 0]

Devices == {"d1", "d2"}

NoDevice == "NULL"

\* the records the keypad delivers in the device explorations
KeypadRecords ==
    { [type |-> EV_KEY, code |-> KEY_VOLUMEUP, value |-> 1],
      [type |-> EV_KEY, code |-> KEY_A, value |-> 0],
      [type |-> EV_SYN, code |-> 0, value |-> 0] }

\* the records the keypad delivers in the misuse exploration
MisuseRecords ==
    { [type |-> EV_KEY, code |-> KEY_VOLUMEUP, value |-> 1],
      [type |-> EV_SYN, code |-> 0, value |-> 0] }

\* the records the keypad delivers in the shared exploration
SharedRecords ==
    { [type |-> EV_KEY, code |-> KEY_VOLUMEUP, value |-> 1],
      [type |-> EV_KEY, code |-> KEY_A, value |-> 0] }

\* the key codes of the key map exploration: every case label of
\* lookup_key, the left shift code, and codes outside the table
KeyCodes ==
    { KEY_Q, KEY_HOMEPAGE, KEY_W, KEY_BACK, KEY_E, KEY_HOME, KEY_VOLUMEUP,
      KEY_VOLUMEDOWN, KEY_END, KEY_PLAY, KEY_PAUSE, KEY_STOP, KEY_NEXT,
      KEY_PREVIOUS, KEY_SEARCH, KEY_BRIGHTNESSDOWN, KEY_BRIGHTNESSUP,
      KEY_MUTE, KEY_REWIND, KEY_FASTFORWARD, KEY_LEFTSHIFT, KEY_A, 0,
      KEY_CODE_MAX }

KeyValues == {-1, 0, 1, 2, 3}

\* the first record of the key map exploration: every code as a press, one
\* code with every value, and a record that is no key record
KeyMapRecords ==
    { [type |-> EV_KEY, code |-> c, value |-> 1] : c \in KeyCodes }
    \cup { [type |-> EV_KEY, code |-> KEY_VOLUMEDOWN, value |-> v] : v \in KeyValues }
    \cup { [type |-> EV_SYN, code |-> 0, value |-> 0] }

\* the records behind the first one in the key map exploration: a standard
\* key with a negative value
KeyMapFollowers ==
    { [type |-> EV_KEY, code |-> KEY_LEFTSHIFT, value |-> -1] }

VARIABLES
    keypad_event_fd,    \* the global descriptor
    opened,             \* the devices nyx_module_open returned and nobody closed
    current_event_ptr,  \* keys_device_t.current_event_ptr of every device
    heap,               \* the event objects, by address
    raw_events,         \* static of keys_get_event: the written prefix of the array
    event_count,        \* static of keys_get_event
    event_iter,         \* static of keys_get_event
    pc,                 \* "idle", "reading" (inside the read loop), or how the process ended
    cur,                \* the keys_get_event call inside the read loop: its device
                        \* and how the last read() ended
    ndebug,             \* the build: whether NDEBUG compiles the assert of line 387 out
    mode,               \* the exploration: "device", "keymap", "misuse" or "shared"
    readLog,            \* history: the whole records read() handed over, in order
    returned,           \* history: the events keys_get_event handed out, in order
    handed,             \* history: events handed to the caller and not released
    owner,              \* history: the device whose call allocated the cell
    call                \* history: the last call that returned or ended the process

vars == <<keypad_event_fd, opened, current_event_ptr, heap, raw_events,
          event_count, event_iter, pc, cur, ndebug, mode, readLog,
          returned, handed, owner, call>>

prog == <<keypad_event_fd, opened, current_event_ptr, heap, raw_events,
          event_count, event_iter, pc>>

NoCall == [op |-> "none", d |-> NoDevice, e_in |-> NULL, e |-> NULL,
           ret |-> "", src |-> "none", held |-> FALSE, oom |-> FALSE]

\* the record of a call other than keys_get_event: e is the event or the
\* descriptor the call was about, held tells whether a release was given
\* an event the caller held; oom tells whether keys_event_create returned
\* NULL in a keys_get_event call
CallOf(op, d, e, ret) ==
    [op |-> op, d |-> d, e_in |-> NULL, e |-> e, ret |-> ret, src |-> "none",
     held |-> (op = "keys_release_event" /\ e \in handed), oom |-> FALSE]

NoCur == [d |-> NoDevice, rd |-> ""]

InitProgram ==
    /\ keypad_event_fd = 0
    /\ opened = {}
    /\ current_event_ptr = [d \in Devices |-> NULL]
    /\ heap = [a \in Addr |-> FreeCell]
    /\ raw_events = << >>
    /\ event_count = 0
    /\ event_iter = 0
    /\ pc = "idle"
    /\ cur = NoCur
    /\ readLog = << >>
    /\ returned = << >>
    /\ handed = {}
    /\ owner = [a \in Addr |-> NoDevice]
    /\ call = NoCall

Builds == BOOLEAN

Init == InitProgram /\ ndebug \in Builds /\ mode = "device"

\* the key map, the misuse and the shared exploration run the build that
\* keeps the assert
InitShared == InitProgram /\ ndebug = FALSE /\ mode = "shared"

InitMisuse == InitProgram /\ ndebug = FALSE /\ mode = "misuse"

InitKeyMap == InitProgram /\ ndebug = FALSE /\ mode = "keymap"


(***************************************************************************)
(* The environment: what the caller passes and what the source delivers.   *)
(* The device exploration drives one device with the keypad's records and  *)
(* a caller that passes the handles it was given; the key map exploration  *)
(* drives one device through every key code; the misuse exploration has a  *)
(* caller that may pass a null device, any event address and an            *)
(* uninitialized out-parameter; the shared exploration opens both devices. *)
(***************************************************************************)
Pool ==
    CASE mode = "keymap" -> KeyMapFollowers
      [] mode = "misuse" -> MisuseRecords
      [] mode = "shared" -> SharedRecords
      [] OTHER -> KeypadRecords

FirstPool == IF mode = "keymap" THEN KeyMapRecords ELSE Pool

Budget ==
    CASE mode = "keymap" -> MaxKeyRecords
      [] mode = "misuse" -> MaxMisuseRecords
      [] mode = "shared" -> MaxSharedRecords
      [] OTHER -> MaxRecords

CallerDevices == IF mode = "shared" THEN Devices ELSE {"d1"}

\* what the caller's variable holds when it passes its address as e (the
\* call does not read it before it returns an event)
OutParamInits == IF mode = "misuse" THEN {NULL, MaxAddr} ELSE {NULL}

SeqsUpTo(S, n) == UNION { [1..k -> S] : k \in 0..n }

\* the whole records one read() can hand over
Batches ==
    IF Len(readLog) >= Budget THEN { << >> }
    ELSE { << >> } \cup
         { <<r>> \o t : r \in (IF readLog = << >> THEN FirstPool ELSE Pool),
                        t \in SeqsUpTo(Pool, Budget - Len(readLog) - 1) }

(***************************************************************************)
(* read_input_event, lines 343-349: read() stores rd bytes at the start of *)
(* the array: the whole records, then, when the read is cut short inside   *)
(* a record, the bytes of its time stamp, which leave the type, code and   *)
(* value of that entry as they were.  Entries behind keep what they held.  *)
(***************************************************************************)
RawAt(buf, i) == IF i < Len(buf) THEN buf[i + 1] ELSE ZeroRecord

\* sizeof(struct timeval), the leading field of InputEvent_t
TimevalBytes == SizeofInputEvent \div 2

BytesRead(full, cut) ==
    Len(full) * SizeofInputEvent + (IF cut THEN TimevalBytes ELSE 0)

\* line 347 with the division rounded up: a record read in part counts
NumEventsRoundedUp(rd) == (rd + SizeofInputEvent - 1) \div SizeofInputEvent

NumEvents(rd) == rd \div SizeofInputEvent

WriteBatch(buf, full) ==
    IF Len(full) >= Len(buf) THEN full
    ELSE full \o SubSeq(buf, Len(full) + 1, Len(buf))

(***************************************************************************)
(* keys_get_event, lines 390-423: the loop over the batch.  NextKey is the *)
(* index of the record the loop translates, -1 when it runs off the batch. *)
(***************************************************************************)
\* the loop with the continue of line 405 turned into a break
NextKeyOrBreak(buf, iter, count) ==
    IF iter < count /\ RawAt(buf, iter).type = EV_KEY THEN iter ELSE -1

RECURSIVE NextKey(_, _, _)
NextKey(buf, iter, count) ==
    IF iter < count
    THEN IF RawAt(buf, iter).type = EV_KEY THEN iter
         ELSE NextKey(buf, iter + 1, count)
    ELSE -1

\* lines 394 and 425-428 with the increment lost for a record that is
\* translated
IterAfterNoIncrement(hit, iter, count) ==
    LET left == IF hit >= 0 THEN hit
                ELSE IF iter < count THEN count ELSE iter
    IN  IF left >= count THEN 0 ELSE left

\* event_iter set to 0 whenever the loop is left
IterAfterAlwaysReset(hit, iter, count) == 0

\* line 394 done twice for the record that is translated
CursorAtLoopExitSkippingOne(hit, iter, count) ==
    IF hit >= 0 THEN hit + 2
    ELSE IF iter < count THEN count ELSE iter

\* event_iter when the loop of lines 390-423 is left, before lines 425-428:
\* one past the record translated (line 394, then the break of line 421),
\* event_count when the loop ran off the batch, and event_iter as it was
\* when the loop did not run
CursorAtLoopExit(hit, iter, count) ==
    IF hit >= 0 THEN hit + 1
    ELSE IF iter < count THEN count ELSE iter

\* event_iter when the loop is left, then lines 425-428
IterAfter(hit, iter, count) ==
    LET left == CursorAtLoopExit(hit, iter, count)
    IN  IF left >= count THEN 0 ELSE left

(***************************************************************************)
(* keys_get_event from line 378 on.  refilled: the call read a batch (its  *)
(* event_iter was 0); count, buf: event_count and raw_events after line    *)
(* 377; a: what calloc returns if keys_event_create is called, NULL when   *)
(* it fails.                                                               *)
(***************************************************************************)
SlotAfterRefill(old, refilled) == IF refilled THEN NULL ELSE old

\* line 414 lost: the device keeps the event it hands out
SlotKeptAfterHandOut(ptr) == ptr

\* line 414: the device gives the event away
SlotAfterHandOut(ptr) == NULL

\* the call stores NULL in *e when it has no event
OutParamClearedAfterNoEvent(e_in) == NULL

\* *e is written at line 413 only: a call that leaves the loop without a
\* key record leaves *e as the caller passed it
OutParamAfterNoEvent(e_in) == e_in

NeedsEvent(d, refilled) ==
    d # NoDevice /\ SlotAfterRefill(current_event_ptr[d], refilled) = NULL

GetEventResult(d, e_in, refilled, count, buf, a) ==
    LET idle == [pc |-> "idle", slot |-> NULL, heap |-> heap, iter |-> event_iter,
                 e |-> e_in, gave |-> FALSE, alloc |-> NULL, ret |-> NYX_ERROR_NONE,
                 oom |-> FALSE]
    IN  IF d = NoDevice
        THEN \* line 378 or line 381 reads through the null device pointer
             [idle EXCEPT !.pc = "segv", !.ret = ""]
        ELSE
        LET slot0 == SlotAfterRefill(current_event_ptr[d], refilled)
            fresh == slot0 = NULL
            ptr == IF fresh THEN a ELSE slot0
            heap1 == IF fresh /\ a # NULL
                     THEN [heap EXCEPT ![a] = keys_event_create] ELSE heap
            got == IF fresh THEN a ELSE NULL
            hit == NextKey(buf, event_iter, count)
        IN  IF fresh /\ a = NULL /\ ~ndebug
            THEN \* assert(NULL != current_event_ptr) fails
                 [idle EXCEPT !.pc = "aborted", !.ret = "", !.oom = TRUE]
            ELSE IF hit >= 0 /\ ptr = NULL
            THEN \* line 398 writes through the null pointer
                 [idle EXCEPT !.pc = "segv", !.ret = "", !.oom = TRUE]
            ELSE IF hit >= 0 /\ ~heap1[ptr].live
            THEN \* line 398 writes to an object that was freed
                 [idle EXCEPT !.pc = "ub", !.slot = ptr, !.ret = ""]
            ELSE IF hit >= 0
            THEN [pc |-> "idle", slot |-> SlotAfterHandOut(ptr),
                  heap |-> [heap1 EXCEPT ![ptr] = TranslateInto(@, RawAt(buf, hit))],
                  iter |-> IterAfter(hit, event_iter, count),
                  e |-> ptr, gave |-> TRUE, alloc |-> got, ret |-> NYX_ERROR_NONE,
                  oom |-> FALSE]
            ELSE [pc |-> "idle", slot |-> ptr, heap |-> heap1,
                  iter |-> IterAfter(hit, event_iter, count),
                  e |-> OutParamAfterNoEvent(e_in), gave |-> FALSE, alloc |-> got,
                  ret |-> NYX_ERROR_NONE, oom |-> (fresh /\ a = NULL)]

\* calloc: a free cell, or NULL.  The program keeps no pointer to a free
\* cell across an allocation, so which free cell calloc takes changes
\* nothing but the names of the cells; the model takes the lowest.
FreeCells == { x \in Addr : ~heap[x].live }

calloc ==
    IF FreeCells = {} THEN {NULL}
    ELSE {NULL, CHOOSE x \in FreeCells : \A y \in FreeCells : x <= y}

\* what keys_event_create returns, NULL when the call does not make it
AllocOutcomes(d, refilled) ==
    IF NeedsEvent(d, refilled) THEN calloc ELSE {NULL}

\* the process ends (abort, fault, undefined behaviour): nothing of it is
\* left but the way it ended and the call that ended it
Ended(how, c) ==
    /\ pc' = how
    /\ call' = c
    /\ keypad_event_fd' = 0
    /\ opened' = {}
    /\ current_event_ptr' = [d \in Devices |-> NULL]
    /\ heap' = [a \in Addr |-> FreeCell]
    /\ raw_events' = << >>
    /\ event_count' = 0
    /\ event_iter' = 0
    /\ cur' = NoCur
    /\ handed' = {}
    /\ owner' = [a \in Addr |-> NoDevice]
    /\ returned' = << >>
    /\ readLog' = << >>
    /\ UNCHANGED <<ndebug, mode>>

Complete(d, e_in, src, refilled, count, buf, log, a) ==
    LET r == GetEventResult(d, e_in, refilled, count, buf, a)
    IN  IF r.pc # "idle"
        THEN Ended(r.pc, [op |-> "keys_get_event", d |-> d, e_in |-> e_in,
                          e |-> e_in, ret |-> "", src |-> src, held |-> FALSE,
                          oom |-> r.oom])
        ELSE
        /\ pc' = r.pc
        /\ event_count' = count
        /\ raw_events' = buf
        /\ event_iter' = r.iter
        /\ heap' = r.heap
        /\ current_event_ptr' =
               IF d = NoDevice THEN current_event_ptr
               ELSE [current_event_ptr EXCEPT ![d] = r.slot]
        /\ handed' = IF r.gave THEN handed \cup {r.e} ELSE handed
        /\ returned' = IF r.gave
                       THEN Append(returned, [d |-> d, ev |-> r.heap[r.e]])
                       ELSE returned
        /\ owner' = IF r.alloc # NULL
                    THEN [owner EXCEPT ![r.alloc] = d] ELSE owner
        /\ call' = [op |-> "keys_get_event", d |-> d, e_in |-> e_in, e |-> r.e,
                    ret |-> r.ret, src |-> src, held |-> FALSE, oom |-> r.oom]
        /\ cur' = NoCur
        /\ readLog' = log
        /\ UNCHANGED <<keypad_event_fd, opened, ndebug, mode>>

(***************************************************************************)
(* keys_get_event, one action per way the call can go.                     *)
(***************************************************************************)
\* event_iter # 0: no refill, the call goes on in the batch it has
GetEventInBatch(d, e_in) ==
    /\ pc = "idle"
    /\ event_iter # 0
    /\ \E o \in AllocOutcomes(d, FALSE) :
          Complete(d, e_in, "none", FALSE, event_count, raw_events, readLog, o)

\* event_iter = 0 and poll() reports nothing to read: ret_val <= 0 (line
\* 333), or ret_val > 0 without POLLIN (line 338); read_input_event returns 0
GetEventNoData(d, e_in, src) ==
    /\ pc = "idle"
    /\ event_iter = 0
    /\ src \in {"not_ready", "no_pollin"}
    /\ keypad_event_fd < 0 => src = "not_ready"
    /\ \E o \in AllocOutcomes(d, TRUE) :
          Complete(d, e_in, src, TRUE, 0, raw_events, readLog, o)

\* event_iter = 0 and poll() reports POLLIN: the call enters the read loop
\* of lines 341-355.  read_input_event does not look at the device, so a
\* call on a null device waits in the loop like any other; it faults at
\* line 378, once the loop is left
GetEventPollIn(d) ==
    /\ pc = "idle"
    /\ event_iter = 0
    /\ keypad_event_fd >= 0
    /\ pc' = "reading"
    /\ cur' = [d |-> d, rd |-> ""]
    /\ call' = NoCall
    /\ UNCHANGED <<keypad_event_fd, opened, current_event_ptr, heap, raw_events,
                   event_count, event_iter, ndebug, mode, readLog, returned, handed,
                   owner>>

\* read() returns -1 with EINTR, or returns 0: neither branch of lines
\* 345-354 leaves the loop
ReadAgain(rd) ==
    /\ pc = "reading"
    /\ rd \in {"eintr", "zero"}
    /\ cur' = [cur EXCEPT !.rd = rd]
    /\ UNCHANGED <<keypad_event_fd, opened, current_event_ptr, heap, raw_events,
                   event_count, event_iter, pc, ndebug, mode, readLog, returned, handed,
                   owner, call>>

\* the failed read leaves event_count as it was
CountKeptAfterReadFail(old) == old

\* lines 353 and 377: read_input_event returns -1, which keys_get_event
\* stores in event_count
CountAfterReadFail(old) == -1

\* read() returns -1 with another errno: read_input_event returns -1
ReadFail(e_in) ==
    /\ pc = "reading"
    /\ \E o \in AllocOutcomes(cur.d, TRUE) :
          Complete(cur.d, e_in, "fail", TRUE, CountAfterReadFail(event_count),
                   raw_events, readLog, o)

\* read() returns rd > 0 bytes: the whole records full, and the start of
\* one more record when the read is cut short
ReadData(e_in, full, cut) ==
    /\ pc = "reading"
    /\ BytesRead(full, cut) > 0
    /\ BytesRead(full, cut) <= SizeofInputEvent * MAX_EVENTS
    /\ full \in Batches
    /\ \E o \in AllocOutcomes(cur.d, TRUE) :
          Complete(cur.d, e_in, "data", TRUE, NumEvents(BytesRead(full, cut)),
                   WriteBatch(raw_events, full), readLog \o full, o)


(***************************************************************************)
(* keys_release_event, lines 90-106: the two null checks, then free(e).    *)
(* free of an address that is not allocated is undefined: the allocator    *)
(* may detect it and abort, or go on with a corrupted heap ("ub").         *)
(***************************************************************************)
InvalidFreeOutcomes == {"aborted", "ub"}

\* keys_release_event without the check of lines 97-100: free(NULL) does
\* nothing and the call succeeds
keys_release_event_unchecked(d, e) ==
    IF d = NoDevice
    THEN [ret |-> NYX_ERROR_INVALID_HANDLE, heap |-> heap, pc |-> "idle", freed |-> {}]
    ELSE IF e = NULL
    THEN [ret |-> NYX_ERROR_NONE, heap |-> heap, pc |-> "idle", freed |-> {}]
    ELSE IF ~heap[e].live
    THEN [ret |-> "", heap |-> heap, pc |-> "ub", freed |-> {}]
    ELSE [ret |-> NYX_ERROR_NONE, heap |-> [heap EXCEPT ![e] = FreeCell],
          pc |-> "idle", freed |-> {e}]

keys_release_event(d, e) ==
    IF d = NoDevice
    THEN [ret |-> NYX_ERROR_INVALID_HANDLE, heap |-> heap, pc |-> "idle", freed |-> {}]
    ELSE IF e = NULL
    THEN [ret |-> NYX_ERROR_INVALID_HANDLE, heap |-> heap, pc |-> "idle", freed |-> {}]
    ELSE IF ~heap[e].live
    THEN [ret |-> "", heap |-> heap, pc |-> "ub", freed |-> {}]
    ELSE [ret |-> NYX_ERROR_NONE, heap |-> [heap EXCEPT ![e] = FreeCell],
          pc |-> "idle", freed |-> {e}]

\* the events a caller passes to keys_release_event: one it holds, and in
\* the misuse exploration null or, with a device, any address
CallerHandles(d) ==
    IF mode = "misuse" /\ d # NoDevice THEN Addr \cup {NULL}
    ELSE IF mode = "misuse" THEN handed \cup {NULL}
    ELSE handed

ReleaseEvent(d, e) ==
    /\ pc = "idle"
    /\ LET r == keys_release_event(d, e)
       IN  IF r.pc # "idle"
           THEN \E how \in InvalidFreeOutcomes :
                   Ended(how, CallOf("keys_release_event", d, e, ""))
           ELSE /\ heap' = r.heap
                /\ handed' = handed \ r.freed
                /\ owner' = [a \in Addr |-> IF a \in r.freed THEN NoDevice
                                             ELSE owner[a]]
                /\ call' = CallOf("keys_release_event", d, e, r.ret)
                /\ UNCHANGED <<keypad_event_fd, opened, current_event_ptr,
                               raw_events, event_count, event_iter, pc, cur, ndebug, mode,
                               readLog, returned>>

(***************************************************************************)
(* nyx_module_open, lines 127-157.  d is the device calloc returns; how    *)
(* tells whether the caller passed a null d ("null_arg"), calloc failed    *)
(* ("no_memory") or the device was set up; fd is what init_keypad leaves   *)
(* in keypad_event_fd.                                                     *)
(***************************************************************************)
\* init_keypad, lines 113-121: the descriptor open() returns, negative
\* when it fails
init_keypad == {-1, 3}

nyx_module_open(d, how, fd) ==
    /\ pc = "idle"
    /\ d \notin opened
    /\ how \in {"null_arg", "no_memory", "ok"}
    /\ IF how = "ok"
       THEN /\ fd \in init_keypad
            /\ keypad_event_fd' = fd
            /\ opened' = opened \cup {d}
            /\ current_event_ptr' = [current_event_ptr EXCEPT ![d] = NULL]
            /\ call' = CallOf("nyx_module_open", d, NULL, NYX_ERROR_NONE)
       ELSE /\ fd = -1
            /\ UNCHANGED <<keypad_event_fd, opened, current_event_ptr>>
            /\ call' = CallOf("nyx_module_open", NoDevice, NULL,
                              IF how = "null_arg" THEN NYX_ERROR_INVALID_VALUE
                              ELSE NYX_ERROR_OUT_OF_MEMORY)
    /\ UNCHANGED <<heap, raw_events, event_count, event_iter, pc, cur,
                   ndebug, mode, readLog, returned, handed, owner>>

(***************************************************************************)
(* nyx_module_close, lines 159-177: the event in the slot is released,     *)
(* then the device is freed.                                               *)
(***************************************************************************)
SlotToRelease(d) == current_event_ptr[d]

nyx_module_close(d) ==
    /\ pc = "idle"
    /\ IF d = NoDevice
       THEN /\ call' = CallOf("nyx_module_close", d, NULL, NYX_ERROR_INVALID_HANDLE)
            /\ UNCHANGED <<keypad_event_fd, opened, current_event_ptr, heap,
                           raw_events, event_count, event_iter, pc, cur, ndebug, mode,
                           readLog, returned, handed, owner>>
       ELSE LET slot == SlotToRelease(d)
                r == keys_release_event(d, slot)
            IN  IF r.pc # "idle"
                THEN \E how \in InvalidFreeOutcomes :
                        Ended(how, CallOf("nyx_module_close", d, slot, ""))
                ELSE /\ heap' = r.heap
                     /\ handed' = handed \ r.freed
                     /\ owner' = [a \in Addr |-> IF a \in r.freed THEN NoDevice
                                                  ELSE owner[a]]
                     /\ opened' = opened \ {d}
                     /\ current_event_ptr' = [current_event_ptr EXCEPT ![d] = NULL]
                     /\ call' = CallOf("nyx_module_close", d, slot, NYX_ERROR_NONE)
                     /\ UNCHANGED <<keypad_event_fd, raw_events, event_count,
                                    event_iter, pc, cur, ndebug, mode, readLog, returned>>

(***************************************************************************)
(* keys_get_event_source, lines 179-194.  f_null: the caller passed a null *)
(* f.                                                                      *)
(***************************************************************************)
keys_get_event_source(d, f_null) ==
    /\ pc = "idle"
    /\ call' = IF d = NoDevice
               THEN CallOf("keys_get_event_source", d, NULL, NYX_ERROR_INVALID_HANDLE)
               ELSE IF f_null
               THEN CallOf("keys_get_event_source", d, NULL, NYX_ERROR_INVALID_VALUE)
               ELSE CallOf("keys_get_event_source", d, keypad_event_fd, NYX_ERROR_NONE)
    /\ UNCHANGED <<keypad_event_fd, opened, current_event_ptr, heap, raw_events,
                   event_count, event_iter, pc, cur, ndebug, mode, readLog,
                   returned, handed, owner>>

(***************************************************************************)
(* The caller is one thread: it makes one call at a time, on a device it   *)
(* has opened or, in the misuse exploration, on a null device.             *)
(***************************************************************************)
Handles == IF mode = "misuse" THEN opened \cup {NoDevice} ELSE opened

Next ==
    \/ \E d \in CallerDevices, how \in {"null_arg", "no_memory", "ok"},
          fd \in init_keypad : nyx_module_open(d, how, fd)
    \/ \E d \in Handles : nyx_module_close(d)
    \/ \E d \in Handles, f_null \in BOOLEAN : keys_get_event_source(d, f_null)
    \/ \E d \in Handles : \E e \in CallerHandles(d) : ReleaseEvent(d, e)
    \/ \E d \in Handles, e_in \in OutParamInits : GetEventInBatch(d, e_in)
    \/ \E d \in Handles, e_in \in OutParamInits,
          src \in {"not_ready", "no_pollin"} : GetEventNoData(d, e_in, src)
    \/ \E d \in Handles : GetEventPollIn(d)
    \/ \E rd \in {"eintr", "zero"} : ReadAgain(rd)
    \/ \E e_in \in OutParamInits : ReadFail(e_in)
    \/ \E e_in \in OutParamInits, full \in Batches, cut \in BOOLEAN :
          ReadData(e_in, full, cut)

\* the shared exploration: the caller opens the two devices (the keypad
\* opens), interleaves keys_get_event calls on them and releases the events
\* it is handed; the keypad is readable whenever it is polled
NextShared ==
    \/ \E d \in CallerDevices, fd \in init_keypad :
          fd >= 0 /\ nyx_module_open(d, "ok", fd)
    \/ \E d \in Handles : \E e \in CallerHandles(d) : ReleaseEvent(d, e)
    \/ \E d \in Handles, e_in \in OutParamInits : GetEventInBatch(d, e_in)
    \/ \E d \in Handles : GetEventPollIn(d)
    \/ \E e_in \in OutParamInits : ReadFail(e_in)
    \/ \E e_in \in OutParamInits, full \in Batches, cut \in BOOLEAN :
          ReadData(e_in, full, cut)

Spec == Init /\ [][Next]_vars

SpecMisuse == InitMisuse /\ [][Next]_vars

SpecShared == InitShared /\ [][NextShared]_vars

SpecKeyMap == InitKeyMap /\ [][Next]_vars


(***************************************************************************)
(* What the claims speak of.                                               *)
(***************************************************************************)
IsKeyRecord(rec) == rec.type = EV_KEY

\* the key records among the records read so far
KeysRead == SelectSeq(readLog, IsKeyRecord)

\* the records of the current batch the loop has not looked at yet
Unexamined == IF event_iter = 0 THEN 0 ELSE event_count - event_iter

\* the key records among the records the loop has looked at
KeysExamined == SelectSeq(SubSeq(readLog, 1, Len(readLog) - Unexamined), IsKeyRecord)

\* two events carry the same key, type and flags
SameEvent(a, b) ==
    /\ a.key_type = b.key_type
    /\ a.key = b.key
    /\ a.key_is_press = b.key_is_press
    /\ a.key_is_auto_repeat = b.key_is_auto_repeat

\* the step is a keys_get_event call that returned to its caller
GetEventReturns == call'.op = "keys_get_event" /\ pc' = "idle"

\* the step is a keys_get_event call that handed out an event
GetEventGives == GetEventReturns /\ Len(returned') = Len(returned) + 1

Allocated == { a \in Addr : heap[a].live }

\* the events of device d the caller holds
LiveOf(d) == { a \in handed : owner[a] = d }

(***************************************************************************)
(* C1.  The events returned are, in order, the translations of the key     *)
(* records read and looked at so far: every key record the loop has passed *)
(* was returned exactly once, none skipped, doubled or reordered, within a *)
(* batch and across batches.                                               *)
(***************************************************************************)
C1_ReturnedInSourceOrder ==
    /\ Len(returned) = Len(KeysExamined)
    /\ \A i \in 1..Len(returned) :
          i <= Len(KeysExamined) =>
             SameEvent(returned[i].ev, TranslateInto(keys_event_create, KeysExamined[i]))

\* two different events were returned, the second by a call that went on
\* in the batch the first came from
C1_Witness ==
    /\ Len(returned) = 2
    /\ ~SameEvent(returned[1].ev, returned[2].ev)
    /\ call.op = "keys_get_event" /\ call.src = "none" /\ call.e # NULL

(***************************************************************************)
(* C2 as stated: at most one event of a device is live, handed out and not *)
(* released, at any time.                                                  *)
(***************************************************************************)
C2_AtMostOneLive == \A d \in Devices : Cardinality(LiveOf(d)) <= 1

(***************************************************************************)
(* C2 amended.  keys_get_event does not limit the live events: every call  *)
(* that returns an event hands out an object that was not live in the      *)
(* caller's hands before, whether or not earlier events are unreleased,    *)
(* and the device no longer holds it.                                      *)
(***************************************************************************)
C2_HandsOutFreshEvent ==
    [][GetEventGives =>
          /\ call'.e # NULL
          /\ call'.e \notin handed
          /\ handed' = handed \cup {call'.e}
          /\ heap'[call'.e].live
          /\ current_event_ptr'[call'.d] # call'.e]_vars

\* the caller holds two events of one device at once
C2_Witness == \E d \in Devices : Cardinality(LiveOf(d)) = 2

(***************************************************************************)
(* C3.  The event returned for a key record with value v has key_is_press  *)
(* = (v # 0) and key_is_auto_repeat = (v > 1); so auto repeat implies      *)
(* press.                                                                  *)
(***************************************************************************)
C3_FlagsFollowValue ==
    \A i \in 1..Len(returned) :
       i <= Len(KeysRead) =>
          LET v == KeysRead[i].value
              ev == returned[i].ev
          IN  /\ ev.key_is_press = (v # 0)
              /\ ev.key_is_auto_repeat = (v > 1)
              /\ ev.key_is_auto_repeat => ev.key_is_press

\* an auto repeat record and a record with a negative value were returned
C3_Witness ==
    /\ Len(returned) = 2
    /\ KeysRead[1].value = 3 /\ returned[1].ev.key_is_auto_repeat
    /\ KeysRead[2].value = -1 /\ returned[2].ev.key_is_press

(***************************************************************************)
(* C4.  The key and key type of a returned event are those of the          *)
(* classifier: the codes of the custom table give type custom and their    *)
(* fixed identifier, every other code, left shift included, gives type     *)
(* standard and the raw code; nothing of an earlier record enters.         *)
(***************************************************************************)
CustomKeyTable ==
    [c \in { KEY_Q, KEY_HOME, KEY_HOMEPAGE, KEY_W, KEY_BACK, KEY_E, KEY_VOLUMEUP,
             KEY_VOLUMEDOWN, KEY_END, KEY_PLAY, KEY_PAUSE, KEY_STOP, KEY_NEXT,
             KEY_PREVIOUS, KEY_SEARCH, KEY_BRIGHTNESSDOWN, KEY_BRIGHTNESSUP,
             KEY_MUTE, KEY_REWIND, KEY_FASTFORWARD } |->
       CASE c \in {KEY_Q, KEY_HOME} -> "NYX_KEYS_CUSTOM_KEY_HOME"
         [] c \in {KEY_HOMEPAGE, KEY_W} -> "NYX_KEYS_CUSTOM_KEY_HOT"
         [] c \in {KEY_BACK, KEY_E} -> "NYX_KEYS_CUSTOM_KEY_BACK"
         [] c = KEY_VOLUMEUP -> "NYX_KEYS_CUSTOM_KEY_VOL_UP"
         [] c = KEY_VOLUMEDOWN -> "NYX_KEYS_CUSTOM_KEY_VOL_DOWN"
         [] c = KEY_END -> "NYX_KEYS_CUSTOM_KEY_POWER_ON"
         [] c = KEY_PLAY -> "NYX_KEYS_CUSTOM_KEY_MEDIA_PLAY"
         [] c = KEY_PAUSE -> "NYX_KEYS_CUSTOM_KEY_MEDIA_PAUSE"
         [] c = KEY_STOP -> "NYX_KEYS_CUSTOM_KEY_MEDIA_STOP"
         [] c = KEY_NEXT -> "NYX_KEYS_CUSTOM_KEY_MEDIA_NEXT"
         [] c = KEY_PREVIOUS -> "NYX_KEYS_CUSTOM_KEY_MEDIA_PREVIOUS"
         [] c = KEY_SEARCH -> "NYX_KEYS_CUSTOM_KEY_SEARCH"
         [] c = KEY_BRIGHTNESSDOWN -> "NYX_KEYS_CUSTOM_KEY_BRIGHTNESS_DOWN"
         [] c = KEY_BRIGHTNESSUP -> "NYX_KEYS_CUSTOM_KEY_BRIGHTNESS_UP"
         [] c = KEY_MUTE -> "NYX_KEYS_CUSTOM_KEY_VOL_MUTE"
         [] c = KEY_REWIND -> "NYX_KEYS_CUSTOM_KEY_MEDIA_REWIND"
         [] c = KEY_FASTFORWARD -> "NYX_KEYS_CUSTOM_KEY_MEDIA_FASTFORWARD"]

C4_KeyIsClassifierResult ==
    \A i \in 1..Len(returned) :
       i <= Len(KeysRead) =>
          LET c == KeysRead[i].code
              ev == returned[i].ev
          IN  IF c \in DOMAIN CustomKeyTable
              THEN ev.key_type = NYX_KEY_TYPE_CUSTOM /\ ev.key = CustomKeyTable[c]
              ELSE ev.key_type = NYX_KEY_TYPE_STANDARD /\ ev.key = c

\* a custom key was returned, then left shift as a standard key
C4_Witness ==
    /\ Len(returned) = 2
    /\ KeysRead[1].code = KEY_E
    /\ returned[1].ev.key_type = NYX_KEY_TYPE_CUSTOM
    /\ KeysRead[2].code = KEY_LEFTSHIFT
    /\ returned[2].ev.key_type = NYX_KEY_TYPE_STANDARD

(***************************************************************************)
(* C5.  A call that returns hands out an event exactly when a key record   *)
(* lies at or after the cursor in the batch, and then the event of the     *)
(* first such record; records that are no key records are passed over in   *)
(* the same call, and the call returns NYX_ERROR_NONE either way.          *)
(***************************************************************************)
\* the indices of the key records at or after the cursor the call began with
KeysAhead ==
    { i \in 0..(event_count' - 1) : i >= event_iter /\ IsKeyRecord(RawAt(raw_events', i)) }

FirstKeyAhead == CHOOSE i \in KeysAhead : \A j \in KeysAhead : i <= j

C5_SkipsToFirstKey ==
    [][GetEventReturns =>
          /\ call'.ret = NYX_ERROR_NONE
          /\ (KeysAhead = {}) => returned' = returned
          /\ (KeysAhead # {}) =>
                /\ Len(returned') = Len(returned) + 1
                /\ SameEvent(returned'[Len(returned')].ev,
                             TranslateInto(keys_event_create,
                                           RawAt(raw_events', FirstKeyAhead)))]_vars

\* one call read a batch that begins with a record that is no key record
\* and returned the event of the key record behind it
C5_Witness ==
    /\ call.op = "keys_get_event" /\ call.src = "data" /\ call.e # NULL
    /\ event_iter = 0 /\ event_count = 2
    /\ ~IsKeyRecord(RawAt(raw_events, 0))
    /\ IsKeyRecord(RawAt(raw_events, 1))

(***************************************************************************)
(* C6 as stated: a keys_get_event call that has entered the read loop      *)
(* stays in it only to retry a read that was interrupted (EINTR); whatever *)
(* else read() gives, zero bytes included, the call leaves the loop.       *)
(***************************************************************************)
C6_RetriesOnlyOnEintr ==
    [][(pc = "reading" /\ pc' = "reading") => cur'.rd = "eintr"]_vars

(***************************************************************************)
(* C7 as stated: a keys_get_event call that finds no data ready and        *)
(* returns, made right after another such call on the same device that     *)
(* left the device with its pending event, yields no event, returns        *)
(* NYX_ERROR_NONE, leaves the cursor at 0 and leaves the slot and the      *)
(* allocated events as the call before left them.                          *)
(***************************************************************************)
NoDataSources == {"not_ready", "no_pollin"}

C7_NoDataCallsLeaveState ==
    [][(/\ call.op = "keys_get_event" /\ call.src \in NoDataSources
        /\ call'.op = "keys_get_event" /\ call'.src \in NoDataSources
        /\ call'.d = call.d /\ call.d # NoDevice
        /\ current_event_ptr[call.d] # NULL
        /\ pc' = "idle") =>
          /\ call'.ret = NYX_ERROR_NONE
          /\ call'.e = call'.e_in
          /\ event_iter' = 0
          /\ current_event_ptr' = current_event_ptr
          /\ Allocated' = Allocated
          /\ handed' = handed]_vars

(***************************************************************************)
(* C8.  keys_release_event with a null device or a null event returns      *)
(* NYX_ERROR_INVALID_HANDLE, frees nothing and changes nothing: the        *)
(* cursor, the batch, the slot and the events the caller holds stay.       *)
(***************************************************************************)
C8_NullReleaseChangesNothing ==
    [][(call'.op = "keys_release_event"
        /\ (call'.d = NoDevice \/ call'.e = NULL)) =>
          /\ call'.ret = NYX_ERROR_INVALID_HANDLE
          /\ UNCHANGED <<prog, handed>>]_vars

\* the caller passed an event it holds with a null device, and holds it still
C8_Witness ==
    /\ call.op = "keys_release_event" /\ call.d = NoDevice
    /\ call.ret = NYX_ERROR_INVALID_HANDLE
    /\ call.e \in handed /\ heap[call.e].live

(***************************************************************************)
(* C9 as stated, for the second release of an event: keys_release_event    *)
(* called again with the device and the event of a release that has just   *)
(* succeeded for an event the caller held returns                          *)
(* NYX_ERROR_INVALID_HANDLE and frees nothing.                             *)
(***************************************************************************)
C9_ReleaseOnlyOutstanding ==
    [][(/\ call.op = "keys_release_event" /\ call.ret = NYX_ERROR_NONE
        /\ call'.op = "keys_release_event"
        /\ call.held
        /\ call'.d = call.d /\ call'.e = call.e) =>
          /\ pc' = "idle"
          /\ call'.ret = NYX_ERROR_INVALID_HANDLE
          /\ heap' = heap]_vars

(***************************************************************************)
(* C10 as stated, for a caller that holds no event when it closes: when    *)
(* nyx_module_close returns NYX_ERROR_NONE no event is left allocated.     *)
(***************************************************************************)
C10_CloseLeavesNoEvent ==
    [][(/\ call'.op = "nyx_module_close" /\ call'.d # NoDevice
        /\ call'.ret = NYX_ERROR_NONE /\ pc' = "idle"
        /\ handed = {}) =>
          \A a \in Addr : owner[a] = call'.d => ~heap'[a].live]_vars

(***************************************************************************)
(* C11 as stated: keys_get_event called with a null device returns         *)
(* NYX_ERROR_INVALID_HANDLE to its caller and changes nothing of the       *)
(* program: nothing is read, the cursor, the batch and the heap stay.      *)
(***************************************************************************)
C11_NullDeviceReported ==
    [][(call'.op = "keys_get_event" /\ call'.d = NoDevice) =>
          /\ pc' = "idle"
          /\ call'.ret = NYX_ERROR_INVALID_HANDLE
          /\ UNCHANGED <<prog, readLog>>]_vars

(***************************************************************************)
(* C12 as stated: a keys_get_event call in which keys_event_create fails   *)
(* returns to its caller with NYX_ERROR_OUT_OF_MEMORY and hands out no     *)
(* event; the process goes on.                                             *)
(***************************************************************************)
C12_AllocFailureReported ==
    [][(call'.op = "keys_get_event" /\ call'.oom) =>
          /\ pc' = "idle"
          /\ call'.ret = NYX_ERROR_OUT_OF_MEMORY
          /\ returned' = returned]_vars

(***************************************************************************)
(* C13.  A keys_get_event call whose read fails (not EINTR) returns        *)
(* NYX_ERROR_NONE without an event and leaves the cursor at 0; the next    *)
(* keys_get_event call refills, and when that read delivers key records    *)
(* it returns the event of the first of them.                              *)
(***************************************************************************)
C13_ReadFailureRecovers ==
    [][/\ (GetEventReturns /\ call'.src = "fail") =>
             /\ call'.ret = NYX_ERROR_NONE
             /\ returned' = returned
             /\ call'.e = call'.e_in
             /\ event_iter' = 0
             /\ readLog' = readLog
       /\ (event_count = -1 /\ call'.op = "keys_get_event") =>
             call'.src # "none"
       /\ (event_count = -1 /\ GetEventReturns /\ call'.src = "data"
            /\ KeysAhead # {}) =>
             /\ Len(returned') = Len(returned) + 1
             /\ SameEvent(returned'[Len(returned')].ev,
                          TranslateInto(keys_event_create,
                                        RawAt(raw_events', FirstKeyAhead)))]_vars

\* a read failed after an event had been returned, with records still to
\* come from the source
C13_Witness ==
    /\ pc = "idle" /\ call.op = "keys_get_event" /\ call.src = "fail"
    /\ call.ret = NYX_ERROR_NONE
    /\ event_count = -1 /\ event_iter = 0
    /\ Len(returned) = 1 /\ Len(readLog) < Budget

(***************************************************************************)
(* C14 as stated: in every reachable state the cursor is within the batch, *)
(* 0 <= event_iter <= event_count.                                         *)
(***************************************************************************)
C14_CursorInRange == 0 <= event_iter /\ event_iter <= event_count

(***************************************************************************)
(* C14 amended.  event_count is -1 after a read that failed and is         *)
(* otherwise the number of records of the batch, at most MAX_EVENTS.  The  *)
(* cursor is never negative; it is 0 while event_count is -1 and is at     *)
(* most event_count otherwise.  This holds between calls, while a call     *)
(* waits in the read loop, and for every value the cursor takes while the  *)
(* loop of lines 390-423 runs: from event_iter as the loop finds it up to  *)
(* the value with which the loop is left, which is event_count itself      *)
(* when the last record of the batch has been passed.                      *)
(***************************************************************************)
C14_CursorInRangeUnlessReadFailed ==
    [][/\ event_count' \in -1..MAX_EVENTS
       /\ 0 <= event_iter'
       /\ IF event_count' = -1 THEN event_iter' = 0
          ELSE event_iter' <= event_count'
       /\ GetEventReturns =>
             \A c \in event_iter..
                       CursorAtLoopExit(NextKey(raw_events', event_iter,
                                                event_count'),
                                        event_iter, event_count') :
                /\ 0 <= c
                /\ IF event_count' = -1 THEN c = 0 ELSE c <= event_count']_vars

\* a call is inside the read loop while event_count is still the -1 of a
\* read that failed
C14_Witness == pc = "reading" /\ event_count = -1 /\ event_iter = 0

(***************************************************************************)
(* What C15 speaks of: the steps of keys_get_event that go on, the steps   *)
(* in which it calls read_input_event, and the key records of the batch    *)
(* the cursor has not passed.                                              *)
(***************************************************************************)
GetEventStep ==
    /\ pc' \in {"idle", "reading"}
    /\ call'.op = "keys_get_event" \/ (pc = "idle" /\ pc' = "reading")

Refills == pc' = "reading" \/ call'.src # "none"

KeysLeft ==
    IF event_iter = 0 THEN {}
    ELSE { i \in event_iter..(event_count - 1) : IsKeyRecord(RawAt(raw_events, i)) }

\* the last call returned an event and no key record of the batch is left
ReturnedLastKey ==
    /\ pc = "idle" /\ call.op = "keys_get_event" /\ call.e # call.e_in
    /\ KeysLeft = {}

(***************************************************************************)
(* C15 as stated, its last part: the keys_get_event call after the call    *)
(* that returned the last key record of a batch refills.                   *)
(***************************************************************************)
C15_RefillAfterLastKey ==
    [][(ReturnedLastKey /\ GetEventStep) => Refills]_vars

(***************************************************************************)
(* C15 amended.  A keys_get_event call calls read_input_event exactly when *)
(* the cursor is 0 at its start, and then every key record read so far has *)
(* been returned; a call that starts with a cursor that is not 0 reads     *)
(* nothing and leaves the batch and its count alone.  After the call that  *)
(* returned the last key record of a batch the next call refills only if   *)
(* that record was the last record of the batch; if records that are no    *)
(* key records follow it, the next call passes over them without a refill, *)
(* returns no event and leaves the cursor at 0 for the call after it.      *)
(***************************************************************************)
C15_RefillOnlyAtCursorZero ==
    [][GetEventStep =>
          /\ Refills <=> event_iter = 0
          /\ Refills => Len(returned) = Len(KeysRead)
          /\ ~Refills => UNCHANGED <<readLog, raw_events, event_count>>
          /\ (ReturnedLastKey /\ event_iter # 0) =>
                /\ ~Refills
                /\ returned' = returned
                /\ event_iter' = 0]_vars

\* the call after the one that returned the last key record of the batch
\* went on in the batch, passed a record that is no key record, returned
\* no event and left the cursor at 0
C15_Witness ==
    /\ pc = "idle" /\ call.op = "keys_get_event" /\ call.src = "none"
    /\ call.e = call.e_in /\ call.ret = NYX_ERROR_NONE
    /\ event_iter = 0 /\ event_count = 2
    /\ IsKeyRecord(RawAt(raw_events, 0)) /\ ~IsKeyRecord(RawAt(raw_events, 1))
    /\ Len(returned) = 1

(***************************************************************************)
(* C16.  After a read, event_count is the number of whole records the      *)
(* read handed over, and an event a call returns is the event of a key     *)
(* record at an index below event_count, at or after the cursor: what the  *)
(* buffer holds at and behind index event_count, left by an earlier batch  *)
(* or by a record read in part, gives no event.                            *)
(***************************************************************************)
\* the index of the record the loop stopped at
SurfacedIndex == (IF event_iter' = 0 THEN event_count' ELSE event_iter') - 1

C16_OnlyBatchRecordsSurface ==
    [][GetEventReturns =>
          /\ call'.src = "data" => event_count' = Len(readLog') - Len(readLog)
          /\ GetEventGives =>
                /\ SurfacedIndex >= event_iter
                /\ SurfacedIndex < event_count'
                /\ IsKeyRecord(RawAt(raw_events', SurfacedIndex))
                /\ SameEvent(returned'[Len(returned')].ev,
                             TranslateInto(keys_event_create,
                                           RawAt(raw_events', SurfacedIndex)))
          /\ (\A i \in event_iter..(event_count' - 1) :
                 ~IsKeyRecord(RawAt(raw_events', i))) => ~GetEventGives]_vars

\* a read cut short inside its first record gave a batch of 0 records while
\* the buffer still holds the key record of the batch before; the call
\* returned no event
C16_Witness ==
    /\ pc = "idle" /\ call.op = "keys_get_event" /\ call.src = "data"
    /\ event_count = 0 /\ Len(raw_events) > 0
    /\ IsKeyRecord(RawAt(raw_events, 0))
    /\ call.e = call.e_in /\ Len(returned) = 1

(***************************************************************************)
(* C17.  With a caller that releases only events it holds: a call that     *)
(* returns an event leaves the device's slot NULL; no slot ever holds an   *)
(* event the caller holds; keys_get_event and nyx_module_close leave the   *)
(* events the caller holds allocated and unwritten; and no call writes or  *)
(* frees an event that was freed (the process never runs into undefined    *)
(* behaviour, a release or close never ends it).                           *)
(***************************************************************************)
C17_HandedEventNotInSlot ==
    [][/\ GetEventGives => current_event_ptr'[call'.d] = NULL
       /\ \A d \in Devices : current_event_ptr'[d] \notin handed'
       /\ (pc' = "idle" /\ call'.op \in {"keys_get_event", "nyx_module_close"}) =>
             \A a \in handed : heap'[a] = heap[a] /\ heap[a].live
       /\ pc' # "ub"
       /\ call'.op \in {"keys_release_event", "nyx_module_close"} => pc' = "idle"]_vars

\* nyx_module_close freed the event of the slot while the caller holds an
\* event, which stays allocated
C17_Witness ==
    /\ pc = "idle" /\ call.op = "nyx_module_close" /\ call.ret = NYX_ERROR_NONE
    /\ call.e # NULL /\ ~heap[call.e].live
    /\ handed # {} /\ \A a \in handed : heap[a].live

(***************************************************************************)
(* C18 as stated: every allocated event is referenced: the caller holds it *)
(* or a device's slot holds it.                                            *)
(***************************************************************************)
C18_AllocatedEventsReferenced ==
    \A a \in Allocated :
       a \in handed \/ \E d \in Devices : current_event_ptr[d] = a

(***************************************************************************)
(* C19.  A keys_get_event call that returns gives NYX_ERROR_NONE; when it  *)
(* produced an event *e is that event, which the caller now holds, and     *)
(* when it produced none *e is what the caller passed in, NULL or not.     *)
(***************************************************************************)
C19_OutParamWrittenOnlyWithEvent ==
    [][GetEventReturns =>
          /\ call'.ret = NYX_ERROR_NONE
          /\ IF GetEventGives
             THEN /\ call'.e # NULL
                  /\ handed' = handed \cup {call'.e}
                  /\ heap'[call'.e].live
             ELSE /\ call'.e = call'.e_in
                  /\ handed' = handed]_vars

\* the caller passed a variable that held an address that is no event; the
\* call read a batch without a key record and left the variable as it was
C19_Witness ==
    /\ pc = "idle" /\ call.op = "keys_get_event" /\ call.src = "data"
    /\ call.ret = NYX_ERROR_NONE
    /\ event_count = 1 /\ ~IsKeyRecord(RawAt(raw_events, 0))
    /\ call.e_in = MaxAddr /\ call.e = MaxAddr /\ ~heap[MaxAddr].live

(***************************************************************************)
(* C20.  With two opened devices whose keys_get_event calls interleave in  *)
(* any order: a call that returns, on whichever device, hands out the      *)
(* event of the next key record of the source that no call has been given  *)
(* yet when a key record lies ahead of the shared cursor, and nothing      *)
(* otherwise; a call reads from the source only when every key record read *)
(* before has been handed out; so every key record goes to one call, in    *)
(* source order.                                                           *)
(***************************************************************************)
C20_SharedCursorDeliversOnce ==
    [][GetEventReturns =>
          /\ Len(returned') <= Len(KeysRead')
          /\ call'.src # "none" => Len(returned) = Len(KeysRead)
          /\ IF KeysAhead # {}
             THEN /\ Len(returned') = Len(returned) + 1
                  /\ SubSeq(returned', 1, Len(returned)) = returned
                  /\ returned'[Len(returned')].d = call'.d
                  /\ SameEvent(returned'[Len(returned')].ev,
                               TranslateInto(keys_event_create,
                                             KeysRead'[Len(returned')]))
             ELSE returned' = returned]_vars

\* one device read a batch of two different key records and was given the
\* first, the other device's call was given the second
C20_Witness ==
    /\ Len(returned) = 2
    /\ returned[1].d = "d1" /\ returned[2].d = "d2"
    /\ ~SameEvent(returned[1].ev, returned[2].ev)
    /\ pc = "idle" /\ call.op = "keys_get_event" /\ call.d = "d2"
    /\ call.src = "none" /\ call.e # NULL

=============================================================================
